---------------------------- MODULE Spec2Model ----------------------------
(***************************************************************************)
(* Model of faksobaza's SQL front-end: the expect combinators of           *)
(* src/sql/expects.rs and the schema validator of                          *)
(* src/constructs/components.rs.                                           *)
(*                                                                         *)
(* Every combinator is a pure function of a token slice.  The state holds  *)
(* the inputs of a call (drawn in Init), the name of the function called   *)
(* last and what it returned.                                              *)
(***************************************************************************)
EXTENDS Integers, Sequences, FiniteSets, TLC

VARIABLES
    tokens,     \* &[Token]: the token slice handed to a combinator
    expected,   \* &[TokenValue]: expected_token_values
    name,       \* String: the table name handed to TableDefinition
    columns,    \* Vec<ColumnDefinition> (validated shape) handed to TableDefinition
    call,       \* the function applied last ("none" before any call)
    arg,        \* the extra argument of that call (expected value, fn pointer)
    result      \* what the call returned

vars == <<tokens, expected, name, columns, call, arg, result>>

-----------------------------------------------------------------------------
(* Bounds of the explored inputs *)

MaxSeqTokens == 3
MaxExpected == 3
MaxGrammarTokens == 4
MaxListColumns == 3
MaxTableColumns == 3
MaxLine == 2

-----------------------------------------------------------------------------
(* Tokens: Token { value: TokenValue, line_number } *)

Const(keyword) == [variant |-> "Const", of |-> keyword]
Type(data_type) == [variant |-> "Type", of |-> data_type]
Delimiting(delimiter) == [variant |-> "Delimiting", of |-> delimiter]
Arbitrary(text) == [variant |-> "Arbitrary", of |-> text]

Semicolon == Delimiting("Semicolon")
Comma == Delimiting("Comma")
ParenthesisOpening == Delimiting("ParenthesisOpening")
ParenthesisClosing == Delimiting("ParenthesisClosing")

Token(value, line_number) == [value |-> value, line_number |-> line_number]

\* tokens.first(): None is modelled by the empty sequence
IsEmpty(s) == Len(s) = 0

\* &tokens[start..]: Rust panics when start > tokens.len()
InBounds(s, start) == start <= Len(s)
SliceFrom(s, start) == SubSeq(s, start + 1, Len(s))

-----------------------------------------------------------------------------
(* Results: ExpectResult<O> = Result<ExpectOk<O>, SyntaxError>; a slice     *)
(* index out of range aborts the call instead of returning.                *)

Unit == <<>>

ExpectOk(rest, tokens_consumed_count, outcome) ==
    [rest |-> rest, tokens_consumed_count |-> tokens_consumed_count, outcome |-> outcome]

\* format!(fmt, args...): the format string and its arguments in order.
\* A format string is written with ' where the source has a backquote.
Format(fmt, args) == [fmt |-> fmt, args |-> args]

SyntaxError(message) == [SyntaxError |-> message]

Panic(message) == [panic |-> message]

IsOk(r) == "rest" \in DOMAIN r
IsErr(r) == "SyntaxError" \in DOMAIN r
IsPanic(r) == "panic" \in DOMAIN r

SliceIndexPanic == Panic("range start index out of range for slice")

-----------------------------------------------------------------------------
(* Generic expects *)

\* expect_token_value comparing before it looks for the statement terminator
expect_token_value_terminator_matched(toks, expected_token_value) ==
    IF IsEmpty(toks)
    THEN SyntaxError(Format("Expected '{}', instead found end of statement.",
                            <<expected_token_value>>))
    ELSE IF Head(toks).value = expected_token_value
         THEN ExpectOk(SliceFrom(toks, 1), 1, Unit)
         ELSE IF Head(toks).value = Semicolon
              THEN SyntaxError(Format("Expected '{}', instead found end of statement.",
                                      <<expected_token_value>>))
              ELSE SyntaxError(Format("Expected '{}', instead found {}.",
                                      <<expected_token_value, Head(toks)>>))

expect_token_value(toks, expected_token_value) ==
    IF IsEmpty(toks) \/ Head(toks).value = Semicolon
    THEN SyntaxError(Format("Expected '{}', instead found end of statement.",
                            <<expected_token_value>>))
    ELSE IF Head(toks).value = expected_token_value
         THEN ExpectOk(SliceFrom(toks, 1), 1, Unit)
         ELSE SyntaxError(Format("Expected '{}', instead found {}.",
                                 <<expected_token_value, Head(toks)>>))

RECURSIVE expect_token_values_sequence_loop(_, _, _)
\* the for loop of expect_token_values_sequence from iteration token_index on,
\* followed by the code after the loop
expect_token_values_sequence_loop(toks, expected_token_values, token_index) ==
    IF token_index = Len(expected_token_values)
    THEN IF InBounds(toks, Len(expected_token_values))
         THEN ExpectOk(SliceFrom(toks, Len(expected_token_values)),
                       Len(expected_token_values), Unit)
         ELSE SliceIndexPanic
    ELSE IF ~InBounds(toks, token_index)
         THEN SliceIndexPanic
         ELSE LET r == expect_token_value(SliceFrom(toks, token_index),
                                          expected_token_values[token_index + 1])
              IN  IF IsOk(r)
                  THEN expect_token_values_sequence_loop(toks, expected_token_values,
                                                         token_index + 1)
                  ELSE r

RECURSIVE expect_token_values_sequence_keep_going_loop(_, _, _, _)
\* expect_token_values_sequence without the early return of `?`: the loop runs
\* on and the error of the last failing element is returned
expect_token_values_sequence_keep_going_loop(toks, expected_token_values, token_index, last) ==
    IF token_index = Len(expected_token_values)
    THEN IF ~IsOk(last)
         THEN last
         ELSE ExpectOk(SliceFrom(toks, Len(expected_token_values)),
                       Len(expected_token_values), Unit)
    ELSE LET r == expect_token_value(SliceFrom(toks, token_index),
                                     expected_token_values[token_index + 1])
         IN  expect_token_values_sequence_keep_going_loop(
                 toks, expected_token_values, token_index + 1,
                 IF IsOk(r) THEN last ELSE r)

expect_token_values_sequence_keep_going(toks, expected_token_values) ==
    expect_token_values_sequence_keep_going_loop(toks, expected_token_values, 0,
                                                 ExpectOk(toks, 0, Unit))

expect_token_values_sequence(toks, expected_token_values) ==
    expect_token_values_sequence_loop(toks, expected_token_values, 0)

expect_identifier(toks) ==
    IF IsEmpty(toks) \/ Head(toks).value = Semicolon
    THEN SyntaxError(Format("Expected an identifier, instead found end of statement.",
                            <<>>))
    ELSE IF Head(toks).value.variant = "Arbitrary"
         THEN ExpectOk(SliceFrom(toks, 1), 1, Head(toks).value.of)
         ELSE SyntaxError(Format("Expected an identifier, instead found {}.",
                                 <<Head(toks)>>))

\* expect_end_of_statement without the check for tokens after the semicolon
expect_end_of_statement_ignoring_rest(toks) ==
    IF IsEmpty(toks)
    THEN ExpectOk(toks, 0, Unit)
    ELSE IF Head(toks).value = Semicolon
         THEN ExpectOk(SliceFrom(toks, 1), 1, Unit)
         ELSE SyntaxError(Format("Expected no more tokens or a semicolon, instead found {}.",
                                 <<Head(toks)>>))

expect_end_of_statement(toks) ==
    IF IsEmpty(toks)
    THEN ExpectOk(toks, 0, Unit)
    ELSE IF Head(toks).value = Semicolon
         THEN IF Len(toks) > 1
              THEN SyntaxError(Format("Found tokens after a semicolon! Only a single statement at once can be provided.",
                                      <<>>))
              ELSE ExpectOk(SliceFrom(toks, 1), 1, Unit)
         ELSE SyntaxError(Format("Expected no more tokens or a semicolon, instead found {}.",
                                 <<Head(toks)>>))

-----------------------------------------------------------------------------
(* Semantic expects.  The syntactic ColumnDefinition and TableDefinition of *)
(* expects.rs carry no primary-key marker.                                 *)

DataTypeWrapped(data_type, is_nullable) ==
    [data_type |-> data_type, is_nullable |-> is_nullable]

SyntacticColumnDefinition(column_name, data_type) ==
    [name |-> column_name, data_type |-> data_type]

SyntacticTableDefinition(table_name, cols) ==
    [name |-> table_name, columns |-> cols]

nullable_sequence == <<Const("Nullable"), ParenthesisOpening>>

\* the second half of expect_data_type_wrapped: the closing parenthesis of
\* NULLABLE(...), or nothing more for a bare type
expect_data_type_wrapped_closing(toks, tokens_consumed_count, data_type, is_nullable) ==
    IF is_nullable
    THEN IF ~InBounds(toks, tokens_consumed_count)
         THEN SliceIndexPanic
         ELSE LET after == SliceFrom(toks, tokens_consumed_count)
              IN  IF IsEmpty(after) \/ Head(after).value = Semicolon
                  THEN SyntaxError(Format("Expected a closing parenthesis, instead found end of statement.",
                                          <<>>))
                  ELSE IF Head(after).value = ParenthesisClosing
                       THEN IF InBounds(toks, tokens_consumed_count + 1)
                            THEN ExpectOk(SliceFrom(toks, tokens_consumed_count + 1),
                                          tokens_consumed_count + 1,
                                          DataTypeWrapped(data_type, is_nullable))
                            ELSE SliceIndexPanic
                       ELSE SyntaxError(Format("Expected a closing parenthesis, instead found {}.",
                                               <<Head(after)>>))
    ELSE IF InBounds(toks, tokens_consumed_count)
         THEN ExpectOk(SliceFrom(toks, tokens_consumed_count), tokens_consumed_count,
                       DataTypeWrapped(data_type, is_nullable))
         ELSE SliceIndexPanic

\* the first match on tokens[tokens_consumed_count..].first(): the type token
expect_data_type_wrapped_type(toks, tokens_consumed_count, is_nullable) ==
    IF ~InBounds(toks, tokens_consumed_count)
    THEN SliceIndexPanic
    ELSE LET after == SliceFrom(toks, tokens_consumed_count)
         IN  IF IsEmpty(after) \/ Head(after).value = Semicolon
             THEN SyntaxError(IF is_nullable
                              THEN Format("Expected a type, instead found end of statement.",
                                          <<>>)
                              ELSE Format("Expected a type or 'NULLABLE(', instead found end of statement.",
                                          <<>>))
             ELSE IF Head(after).value.variant = "Type"
                  THEN expect_data_type_wrapped_closing(toks, tokens_consumed_count + 1,
                                                         Head(after).value.of, is_nullable)
                  ELSE SyntaxError(IF is_nullable
                                   THEN Format("Expected a type, instead found {}.",
                                               <<Head(after)>>)
                                   ELSE Format("Expected a type or 'NULLABLE(', instead found {}.",
                                               <<Head(after)>>))

\* expect_data_type_wrapped deciding nullability from the NULLABLE keyword alone
expect_data_type_wrapped_keyword_only(toks) ==
    IF ~IsEmpty(toks) /\ Head(toks).value = Const("Nullable")
    THEN expect_data_type_wrapped_type(toks, Len(nullable_sequence), TRUE)
    ELSE expect_data_type_wrapped_type(toks, 0, FALSE)

expect_data_type_wrapped(toks) ==
    LET prefix == expect_token_values_sequence(toks, nullable_sequence)
    IN  IF IsPanic(prefix)
        THEN prefix
        ELSE IF IsOk(prefix)
             THEN expect_data_type_wrapped_type(toks, Len(nullable_sequence), TRUE)
             ELSE expect_data_type_wrapped_type(toks, 0, FALSE)

expect_column_definition(toks) ==
    LET id == expect_identifier(toks)
    IN  IF ~IsOk(id)
        THEN id
        ELSE LET dt == expect_data_type_wrapped(id.rest)
             IN  IF ~IsOk(dt)
                 THEN dt
                 ELSE ExpectOk(dt.rest,
                               id.tokens_consumed_count + dt.tokens_consumed_count,
                               SyntacticColumnDefinition(id.outcome, dt.outcome))

-----------------------------------------------------------------------------
(* Combinators taking a function pointer.  A pointer is modelled by the     *)
(* name of the function it points to; Call applies it.                      *)

RECURSIVE Call(_, _)

RECURSIVE expect_comma_separated_loop_prepending(_, _, _, _)
\* the loop of expect_comma_separated with each outcome put in front
expect_comma_separated_loop_prepending(toks, expect_element, tokens_consumed_total_count, outcomes) ==
    LET element == Call(expect_element, SliceFrom(toks, tokens_consumed_total_count))
    IN  IF ~IsOk(element)
        THEN element
        ELSE LET total == tokens_consumed_total_count + element.tokens_consumed_count
                 pushed == <<element.outcome>> \o outcomes
             IN  IF IsOk(expect_token_value(SliceFrom(toks, total), Comma))
                 THEN expect_comma_separated_loop_prepending(toks, expect_element,
                                                             total + 1, pushed)
                 ELSE ExpectOk(SliceFrom(toks, total), total, pushed)

RECURSIVE expect_comma_separated_loop_lenient(_, _, _, _)
\* the loop of expect_comma_separated ending the list at a comma that no
\* element follows
expect_comma_separated_loop_lenient(toks, expect_element, tokens_consumed_total_count, outcomes) ==
    LET element == Call(expect_element, SliceFrom(toks, tokens_consumed_total_count))
    IN  IF ~IsOk(element)
        THEN IF outcomes = <<>>
             THEN element
             ELSE ExpectOk(SliceFrom(toks, tokens_consumed_total_count - 1),
                           tokens_consumed_total_count - 1, outcomes)
        ELSE LET total == tokens_consumed_total_count + element.tokens_consumed_count
                 pushed == Append(outcomes, element.outcome)
             IN  IF IsOk(expect_token_value(SliceFrom(toks, total), Comma))
                 THEN expect_comma_separated_loop_lenient(toks, expect_element,
                                                          total + 1, pushed)
                 ELSE ExpectOk(SliceFrom(toks, total), total, pushed)

RECURSIVE expect_comma_separated_loop_allowing_empty(_, _, _, _)
\* the loop of expect_comma_separated returning an empty list when no element
\* starts the input
expect_comma_separated_loop_allowing_empty(toks, expect_element, tokens_consumed_total_count, outcomes) ==
    LET element == Call(expect_element, SliceFrom(toks, tokens_consumed_total_count))
    IN  IF ~IsOk(element)
        THEN IF outcomes = <<>>
             THEN ExpectOk(toks, 0, outcomes)
             ELSE element
        ELSE LET total == tokens_consumed_total_count + element.tokens_consumed_count
                 pushed == Append(outcomes, element.outcome)
             IN  IF IsOk(expect_token_value(SliceFrom(toks, total), Comma))
                 THEN expect_comma_separated_loop_allowing_empty(toks, expect_element,
                                                                 total + 1, pushed)
                 ELSE ExpectOk(SliceFrom(toks, total), total, pushed)

RECURSIVE expect_comma_separated_loop(_, _, _, _)
\* the loop of expect_comma_separated from the top of an iteration, followed
\* by the code after the loop
expect_comma_separated_loop(toks, expect_element, tokens_consumed_total_count, outcomes) ==
    IF ~InBounds(toks, tokens_consumed_total_count)
    THEN SliceIndexPanic
    ELSE LET element == Call(expect_element, SliceFrom(toks, tokens_consumed_total_count))
         IN  IF ~IsOk(element)
             THEN element
             ELSE LET total == tokens_consumed_total_count + element.tokens_consumed_count
                      pushed == Append(outcomes, element.outcome)
                  IN  IF ~InBounds(toks, total)
                      THEN SliceIndexPanic
                      ELSE IF IsOk(expect_token_value(SliceFrom(toks, total), Comma))
                           THEN expect_comma_separated_loop(toks, expect_element,
                                                            total + 1, pushed)
                           ELSE ExpectOk(SliceFrom(toks, total), total, pushed)

expect_comma_separated(toks, expect_element) ==
    expect_comma_separated_loop(toks, expect_element, 0, <<>>)

\* the local variables of expect_comma_separated at the top of an iteration
CommaSeparatedLocals(tokens_consumed_total_count, outcomes) ==
    [tokens_consumed_total_count |-> tokens_consumed_total_count, outcomes |-> outcomes]

\* what one pass through the loop body ends in
Returned(value) == [returned |-> value]
HasReturned(step) == "returned" \in DOMAIN step

\* an iteration that leaves tokens_consumed_total_count as it found it
expect_comma_separated_iteration_not_advancing(toks, expect_element, tokens_consumed_total_count, outcomes) ==
    LET element == Call(expect_element, SliceFrom(toks, tokens_consumed_total_count))
    IN  IF ~IsOk(element)
        THEN Returned(element)
        ELSE LET total == tokens_consumed_total_count + element.tokens_consumed_count
                 pushed == Append(outcomes, element.outcome)
             IN  IF IsOk(expect_token_value(SliceFrom(toks, total), Comma))
                 THEN CommaSeparatedLocals(tokens_consumed_total_count, pushed)
                 ELSE Returned(ExpectOk(SliceFrom(toks, total), total, pushed))

\* one pass through the loop body of expect_comma_separated: it returns (the
\* element's error through `?`, or the result after break) or goes round again
\* with new values of the local variables
expect_comma_separated_iteration(toks, expect_element, tokens_consumed_total_count, outcomes) ==
    IF ~InBounds(toks, tokens_consumed_total_count)
    THEN Returned(SliceIndexPanic)
    ELSE LET element == Call(expect_element, SliceFrom(toks, tokens_consumed_total_count))
         IN  IF ~IsOk(element)
             THEN Returned(element)
             ELSE LET total == tokens_consumed_total_count + element.tokens_consumed_count
                      pushed == Append(outcomes, element.outcome)
                  IN  IF ~InBounds(toks, total)
                      THEN Returned(SliceIndexPanic)
                      ELSE IF IsOk(expect_token_value(SliceFrom(toks, total), Comma))
                           THEN CommaSeparatedLocals(total + 1, pushed)
                           ELSE Returned(ExpectOk(SliceFrom(toks, total), total, pushed))

\* expect_enclosed counting one parenthesis instead of two
expect_enclosed_counting_one_parenthesis(toks, expect_inside) ==
    LET opening == expect_token_value(toks, ParenthesisOpening)
    IN  IF ~IsOk(opening)
        THEN opening
        ELSE LET inside == Call(expect_inside, opening.rest)
             IN  IF ~IsOk(inside)
                 THEN inside
                 ELSE LET closing == expect_token_value(inside.rest, ParenthesisClosing)
                      IN  IF ~IsOk(closing)
                          THEN closing
                          ELSE ExpectOk(closing.rest, inside.tokens_consumed_count + 1,
                                        inside.outcome)

expect_enclosed(toks, expect_inside) ==
    LET opening == expect_token_value(toks, ParenthesisOpening)
    IN  IF ~IsOk(opening)
        THEN opening
        ELSE LET inside == Call(expect_inside, opening.rest)
             IN  IF ~IsOk(inside)
                 THEN inside
                 ELSE LET closing == expect_token_value(inside.rest, ParenthesisClosing)
                      IN  IF ~IsOk(closing)
                          THEN closing
                          ELSE ExpectOk(closing.rest, inside.tokens_consumed_count + 2,
                                        inside.outcome)

\* the closure expect_table_definition passes to expect_enclosed
columns_closure(tokens_enclosed) ==
    expect_comma_separated(tokens_enclosed, "expect_column_definition")

Call(function, toks) ==
    CASE function = "expect_identifier" -> expect_identifier(toks)
      [] function = "expect_data_type_wrapped" -> expect_data_type_wrapped(toks)
      [] function = "expect_column_definition" -> expect_column_definition(toks)
      [] function = "columns_closure" -> columns_closure(toks)

expect_table_definition(toks) ==
    LET id == expect_identifier(toks)
    IN  IF ~IsOk(id)
        THEN id
        ELSE LET enclosed == expect_enclosed(id.rest, "columns_closure")
             IN  IF ~IsOk(enclosed)
                 THEN enclosed
                 ELSE ExpectOk(enclosed.rest,
                               id.tokens_consumed_count + enclosed.tokens_consumed_count,
                               SyntacticTableDefinition(id.outcome, enclosed.outcome))

-----------------------------------------------------------------------------
(* Data model and validator (constructs/components.rs) *)

DataType(raw_type, is_nullable) == [raw_type |-> raw_type, is_nullable |-> is_nullable]

ColumnDefinition(column_name, data_type, primary_key) ==
    [name |-> column_name, data_type |-> data_type, primary_key |-> primary_key]

TableDefinition(table_name, cols, primary_key_index) ==
    [name |-> table_name, columns |-> cols, primary_key_index |-> primary_key_index]

\* Result<(), String>
ValidateOk == [Ok |-> Unit]
ValidateErr(message) == [Err |-> message]

\* arguments of format! that are not tokens
Str(text) == [str |-> text]
Num(number) == [num |-> number]

ColumnDefinition_validate(column) ==
    IF column.name = ""
    THEN ValidateErr(Format("A column must have a name", <<>>))
    ELSE ValidateOk

\* columns.iter().position(|column| column.primary_key): 0-based, -1 for None
PrimaryKeyPosition(cols) ==
    IF \E i \in DOMAIN cols : cols[i].primary_key
    THEN (CHOOSE i \in DOMAIN cols :
              /\ cols[i].primary_key
              /\ \A j \in 1..(i - 1) : ~cols[j].primary_key) - 1
    ELSE -1

\* TableDefinition::new: .expect(...) aborts when there is no position
TableDefinition_new(table_name, cols) ==
    IF PrimaryKeyPosition(cols) = -1
    THEN Panic("A table must have a PRIMARY KEY column")
    ELSE TableDefinition(table_name, cols, PrimaryKeyPosition(cols))

RECURSIVE TableDefinition_validate_loop_at_most_one(_, _, _, _)
\* the loop of TableDefinition::validate with the count check written "> 1"
TableDefinition_validate_loop_at_most_one(cols, column_index, primary_key_count, column_names) ==
    IF column_index = Len(cols)
    THEN IF primary_key_count > 1
         THEN ValidateErr(Format("A table must have exactly 1 PRIMARY KEY column, not {}",
                                 <<Num(primary_key_count)>>))
         ELSE ValidateOk
    ELSE LET column == cols[column_index + 1]
         IN  IF column.name \in column_names
             THEN ValidateErr(Format("There is more than one column with name '{}' in table definition",
                                     <<Str(column.name)>>))
             ELSE LET column_result == ColumnDefinition_validate(column)
                  IN  IF column_result # ValidateOk
                      THEN ValidateErr(Format("Problem at column {}: {}",
                                              <<Num(column_index + 1), column_result.Err>>))
                      ELSE TableDefinition_validate_loop_at_most_one(
                               cols, column_index + 1,
                               IF column.primary_key THEN primary_key_count + 1
                                                     ELSE primary_key_count,
                               column_names \cup {column.name})

RECURSIVE TableDefinition_validate_loop_forgetting_names(_, _, _, _)
\* the loop of TableDefinition::validate without column_names.insert
TableDefinition_validate_loop_forgetting_names(cols, column_index, primary_key_count, column_names) ==
    IF column_index = Len(cols)
    THEN IF primary_key_count # 1
         THEN ValidateErr(Format("A table must have exactly 1 PRIMARY KEY column, not {}",
                                 <<Num(primary_key_count)>>))
         ELSE ValidateOk
    ELSE LET column == cols[column_index + 1]
         IN  IF column.name \in column_names
             THEN ValidateErr(Format("There is more than one column with name '{}' in table definition",
                                     <<Str(column.name)>>))
             ELSE LET column_result == ColumnDefinition_validate(column)
                  IN  IF column_result # ValidateOk
                      THEN ValidateErr(Format("Problem at column {}: {}",
                                              <<Num(column_index + 1), column_result.Err>>))
                      ELSE TableDefinition_validate_loop_forgetting_names(
                               cols, column_index + 1,
                               IF column.primary_key THEN primary_key_count + 1
                                                     ELSE primary_key_count,
                               column_names)

RECURSIVE TableDefinition_validate_loop_eager_count(_, _, _, _)
\* the loop of TableDefinition::validate reporting the primary-key count as
\* soon as a second primary key is seen
TableDefinition_validate_loop_eager_count(cols, column_index, primary_key_count, column_names) ==
    IF column_index = Len(cols) \/ primary_key_count > 1
    THEN IF primary_key_count # 1
         THEN ValidateErr(Format("A table must have exactly 1 PRIMARY KEY column, not {}",
                                 <<Num(primary_key_count)>>))
         ELSE ValidateOk
    ELSE LET column == cols[column_index + 1]
         IN  IF column.name \in column_names
             THEN ValidateErr(Format("There is more than one column with name '{}' in table definition",
                                     <<Str(column.name)>>))
             ELSE LET column_result == ColumnDefinition_validate(column)
                  IN  IF column_result # ValidateOk
                      THEN ValidateErr(Format("Problem at column {}: {}",
                                              <<Num(column_index + 1), column_result.Err>>))
                      ELSE TableDefinition_validate_loop_eager_count(
                               cols, column_index + 1,
                               IF column.primary_key THEN primary_key_count + 1
                                                     ELSE primary_key_count,
                               column_names \cup {column.name})

RECURSIVE TableDefinition_validate_loop(_, _, _, _)
\* the for loop of TableDefinition::validate from iteration column_index on
\* (0-based), followed by the primary-key count check
TableDefinition_validate_loop(cols, column_index, primary_key_count, column_names) ==
    IF column_index = Len(cols)
    THEN IF primary_key_count # 1
         THEN ValidateErr(Format("A table must have exactly 1 PRIMARY KEY column, not {}",
                                 <<Num(primary_key_count)>>))
         ELSE ValidateOk
    ELSE LET column == cols[column_index + 1]
         IN  IF column.name \in column_names
             THEN ValidateErr(Format("There is more than one column with name '{}' in table definition",
                                     <<Str(column.name)>>))
             ELSE LET column_result == ColumnDefinition_validate(column)
                  IN  IF column_result # ValidateOk
                      THEN ValidateErr(Format("Problem at column {}: {}",
                                              <<Num(column_index + 1), column_result.Err>>))
                      ELSE TableDefinition_validate_loop(
                               cols, column_index + 1,
                               IF column.primary_key THEN primary_key_count + 1
                                                     ELSE primary_key_count,
                               column_names \cup {column.name})

TableDefinition_validate(self) ==
    IF self.name = ""
    THEN ValidateErr(Format("A table must have a name", <<>>))
    ELSE IF Len(self.columns) = 0
         THEN ValidateErr(Format("A table must have at least one column", <<>>))
         ELSE TableDefinition_validate_loop(self.columns, 0, 0, {})

-----------------------------------------------------------------------------
(* Inputs *)

SeqsOver(S, n) == UNION {[1..k -> S] : k \in 0..n}

\* a statement's tokens as the lexer numbers them when it is written on one line
OnLine(values, line_number) == [i \in DOMAIN values |-> Token(values[i], line_number)]

Lines == 1..MaxLine

Values(toks) == [i \in DOMAIN toks |-> toks[i].value]

\* values of the literal-sequence inputs
SequenceValues == {Const("If"), Const("Not"), Semicolon}

\* values of the grammar inputs
GrammarValues ==
    {Const("Nullable"), ParenthesisOpening, ParenthesisClosing, Comma, Semicolon,
     Type("UInt64"), Arbitrary("a")}

\* the expected values expect_token_value is called with
ExpectedValues == SequenceValues \cup {Comma, ParenthesisOpening, ParenthesisClosing}

\* the functions handed to expect_comma_separated and expect_enclosed
ElementFunctions == {"expect_column_definition", "expect_identifier"}
InsideFunctions == {"columns_closure", "expect_identifier"}

\* column definitions as written in a statement
ColumnSources ==
    {<<Arbitrary(n), Type(t)>> : n \in {"a", "b"}, t \in {"UInt64"}}
    \cup {<<Arbitrary(n), Const("Nullable"), ParenthesisOpening, Type(t), ParenthesisClosing>> :
             n \in {"a", "b"}, t \in {"UInt64"}}

RECURSIVE JoinWithCommas(_)
JoinWithCommas(sources) ==
    IF Len(sources) = 1
    THEN Head(sources)
    ELSE Head(sources) \o <<Comma>> \o JoinWithCommas(Tail(sources))

\* what may follow a column list
Trailers ==
    {<<>>, <<ParenthesisClosing>>, <<Semicolon>>, <<Const("Primary")>>, <<Comma>>,
     <<Comma, ParenthesisClosing>>, <<Comma, Semicolon>>, <<Comma, Comma>>,
     <<ParenthesisClosing, Semicolon>>}

\* what may precede it: nothing, or a table name and the opening parenthesis
Headers == {<<>>, <<Arbitrary("t"), ParenthesisOpening>>}

ColumnListSources ==
    {h \o JoinWithCommas(cs) \o t :
        h \in Headers, cs \in SeqsOver(ColumnSources, MaxListColumns) \ {<<>>}, t \in Trailers}

\* the statement of the end-to-end example after its CREATE TABLE prefix
UsersTableSource ==
    <<Arbitrary("users"), ParenthesisOpening,
      Arbitrary("id"), Type("UInt64"), Const("Primary"), Const("Key"), Comma,
      Arbitrary("name"), Type("String"), Comma,
      Arbitrary("age"), Const("Nullable"), ParenthesisOpening, Type("UInt8"),
      ParenthesisClosing, ParenthesisClosing>>

\* the validated columns that statement describes
UsersColumns ==
    <<ColumnDefinition("id", DataType("UInt64", FALSE), TRUE),
      ColumnDefinition("name", DataType("String", FALSE), FALSE),
      ColumnDefinition("age", DataType("UInt8", TRUE), FALSE)>>

TableNames == {"", "t"}
ColumnNames == {"", "a", "b", "c"}

TableColumns ==
    {ColumnDefinition(n, DataType("UInt64", FALSE), pk) : n \in ColumnNames, pk \in BOOLEAN}

InitSequence ==
    /\ tokens \in {OnLine(vs, l) : vs \in SeqsOver(SequenceValues, MaxSeqTokens), l \in Lines}
    /\ expected \in SeqsOver(SequenceValues, MaxExpected)
    /\ name = ""
    /\ columns = <<>>

InitGrammar ==
    /\ tokens \in {OnLine(vs, l) : vs \in SeqsOver(GrammarValues, MaxGrammarTokens), l \in Lines}
    /\ expected = nullable_sequence
    /\ name = ""
    /\ columns = <<>>

InitColumnList ==
    /\ tokens \in {OnLine(vs, l) : vs \in ColumnListSources, l \in Lines}
    /\ expected = nullable_sequence
    /\ name = ""
    /\ columns = <<>>

InitStatement ==
    /\ tokens \in {OnLine(UsersTableSource, l) : l \in Lines}
    /\ expected = <<Arbitrary("users"), ParenthesisOpening>>
    /\ name = "users"
    /\ columns = UsersColumns

InitTable ==
    /\ tokens = <<>>
    /\ expected = <<>>
    /\ name \in TableNames
    /\ columns \in SeqsOver(TableColumns, MaxTableColumns)

Init ==
    /\ \/ InitSequence
       \/ InitGrammar
       \/ InitColumnList
       \/ InitStatement
       \/ InitTable
    /\ call = "none"
    /\ arg = Unit
    /\ result = Unit

-----------------------------------------------------------------------------
(* One action per public function.  A behaviour is one call on the inputs  *)
(* of the initial state: a call neither reads nor changes what an earlier  *)
(* call returned, so a second call would reach no other state.             *)

inputs == <<tokens, expected, name, columns>>

ExpectTokenValue ==
    /\ call = "none"
    /\ \E expected_token_value \in ExpectedValues :
          /\ arg' = expected_token_value
          /\ result' = expect_token_value(tokens, expected_token_value)
    /\ call' = "expect_token_value"
    /\ UNCHANGED inputs

ExpectTokenValuesSequence ==
    /\ call = "none"
    /\ result' = expect_token_values_sequence(tokens, expected)
    /\ call' = "expect_token_values_sequence"
    /\ UNCHANGED <<inputs, arg>>

ExpectIdentifier ==
    /\ call = "none"
    /\ result' = expect_identifier(tokens)
    /\ call' = "expect_identifier"
    /\ UNCHANGED <<inputs, arg>>

ExpectEndOfStatement ==
    /\ call = "none"
    /\ result' = expect_end_of_statement(tokens)
    /\ call' = "expect_end_of_statement"
    /\ UNCHANGED <<inputs, arg>>

ExpectEnclosed ==
    /\ call = "none"
    /\ \E expect_inside \in InsideFunctions :
          /\ arg' = expect_inside
          /\ result' = expect_enclosed(tokens, expect_inside)
    /\ call' = "expect_enclosed"
    /\ UNCHANGED inputs

ExpectCommaSeparated ==
    /\ call = "none"
    /\ \E expect_element \in ElementFunctions :
          /\ arg' = expect_element
          /\ result' = expect_comma_separated(tokens, expect_element)
    /\ call' = "expect_comma_separated"
    /\ UNCHANGED inputs

ExpectDataTypeWrapped ==
    /\ call = "none"
    /\ result' = expect_data_type_wrapped(tokens)
    /\ call' = "expect_data_type_wrapped"
    /\ UNCHANGED <<inputs, arg>>

ExpectColumnDefinition ==
    /\ call = "none"
    /\ result' = expect_column_definition(tokens)
    /\ call' = "expect_column_definition"
    /\ UNCHANGED <<inputs, arg>>

ExpectTableDefinition ==
    /\ call = "none"
    /\ result' = expect_table_definition(tokens)
    /\ call' = "expect_table_definition"
    /\ UNCHANGED <<inputs, arg>>

New ==
    /\ call = "none"
    /\ result' = TableDefinition_new(name, columns)
    /\ call' = "TableDefinition::new"
    /\ UNCHANGED <<inputs, arg>>

\* validate(&self) on a table built as a struct literal (all fields are pub):
\* primary_key_index is whatever the literal gives
Validate ==
    /\ call = "none"
    /\ \E primary_key_index \in 0..Len(columns) :
          result' = TableDefinition_validate(TableDefinition(name, columns, primary_key_index))
    /\ call' = "TableDefinition::validate"
    /\ UNCHANGED <<inputs, arg>>

\* expect_comma_separated run one loop iteration at a time: result holds the
\* local variables while the call is in its loop
ExpectCommaSeparatedEnter ==
    /\ call = "none"
    /\ \E expect_element \in ElementFunctions : arg' = expect_element
    /\ result' = CommaSeparatedLocals(0, <<>>)
    /\ call' = "expect_comma_separated: in loop"
    /\ UNCHANGED inputs

\* one pass through the body of the loop, from the locals held in result
LoopIteration ==
    expect_comma_separated_iteration(
        tokens, arg, result.tokens_consumed_total_count, result.outcomes)

ExpectCommaSeparatedIteration ==
    /\ call = "expect_comma_separated: in loop"
    /\ result' = IF HasReturned(LoopIteration) THEN LoopIteration.returned ELSE LoopIteration
    /\ call' = IF HasReturned(LoopIteration) THEN "expect_comma_separated: returned" ELSE call
    /\ UNCHANGED <<inputs, arg>>

Next ==
    \/ ExpectTokenValue
    \/ ExpectTokenValuesSequence
    \/ ExpectIdentifier
    \/ ExpectEndOfStatement
    \/ ExpectEnclosed
    \/ ExpectCommaSeparated
    \/ ExpectDataTypeWrapped
    \/ ExpectColumnDefinition
    \/ ExpectTableDefinition
    \/ New
    \/ Validate
    \/ ExpectCommaSeparatedEnter
    \/ ExpectCommaSeparatedIteration

Spec == Init /\ [][Next]_vars

\* a call that has started goes on running until it returns
\* the locals of a running loop of expect_comma_separated, as a value that
\* every iteration changes
LoopLocals ==
    IF call = "expect_comma_separated: in loop"
    THEN <<result.tokens_consumed_total_count, Len(result.outcomes)>>
    ELSE <<>>

\* expect_comma_separated alone, run one loop iteration at a time
LoopNext == ExpectCommaSeparatedEnter \/ ExpectCommaSeparatedIteration

\* Weak fairness of the loop iteration, WF_LoopLocals(ExpectCommaSeparatedIteration):
\* a call that is in the loop keeps running, since the loop has no await and
\* no blocking call.  The iteration is enabled exactly when the call is in
\* the loop (its other conjuncts assign), which stands here for ENABLED.
LoopFairness ==
    \/ []<>(call # "expect_comma_separated: in loop")
    \/ []<><<ExpectCommaSeparatedIteration>>_LoopLocals

LoopSpec == Init /\ [][LoopNext]_vars /\ LoopFairness

-----------------------------------------------------------------------------
(* Properties *)

\* element i (1-based) of the expected sequence E is not matched by T
FailsAt(T, E, i) == i > Len(T) \/ T[i].value # E[i] \/ T[i].value = Semicolon

\* C1: expect_token_values_sequence(T, E) succeeds exactly when T has at least
\* Len(E) tokens, each of the first Len(E) equal in value to the expected one and
\* none a semicolon; it then consumes Len(E) tokens and rest is T without them.
\* Otherwise it returns the error expect_token_value gives for the smallest
\* failing index: E[i] expected, T[i] or end of statement found.
C1_SequenceContract ==
    call = "expect_token_values_sequence" =>
        LET T == tokens
            E == expected
            n == Len(E)
        IN  IF \A i \in 1..n : ~FailsAt(T, E, i)
            THEN result = ExpectOk(SubSeq(T, n + 1, Len(T)), n, Unit)
            ELSE LET i == CHOOSE k \in 1..n :
                              FailsAt(T, E, k) /\ \A j \in 1..(k - 1) : ~FailsAt(T, E, j)
                 IN  /\ result = expect_token_value(SubSeq(T, i, Len(T)), E[i])
                     /\ result = SyntaxError(
                            IF i > Len(T) \/ T[i].value = Semicolon
                            THEN Format("Expected '{}', instead found end of statement.",
                                        <<E[i]>>)
                            ELSE Format("Expected '{}', instead found {}.",
                                        <<E[i], T[i]>>))

\* a sequence of three whose second element fails on a token that is there, and
\* whose third would fail on another token with another expectation
C1_Witness ==
    /\ call = "expect_token_values_sequence"
    /\ Len(expected) = 3
    /\ Len(tokens) = 3
    /\ ~FailsAt(tokens, expected, 1)
    /\ FailsAt(tokens, expected, 2)
    /\ FailsAt(tokens, expected, 3)
    /\ expected[2] # expected[3]
    /\ tokens[2].value # Semicolon
    /\ result = SyntaxError(Format("Expected '{}', instead found {}.",
                                   <<expected[2], tokens[2]>>))

\* C2: expect_token_value(T, v) fails with "found end of statement" whenever T
\* is empty or starts with a semicolon, for every v, the semicolon included;
\* otherwise it succeeds iff the first token's value is v, consuming 1 token
\* and returning the remaining tokens.
C2_TokenValueContract ==
    call = "expect_token_value" =>
        IF tokens = <<>> \/ tokens[1].value = Semicolon
        THEN result = SyntaxError(Format("Expected '{}', instead found end of statement.",
                                         <<arg>>))
        ELSE /\ IsOk(result) <=> tokens[1].value = arg
             /\ IsOk(result) => result = ExpectOk(Tail(tokens), 1, Unit)
             /\ ~IsOk(result) => IsErr(result)

\* a semicolon expected and a semicolon found, with tokens after it
C2_Witness ==
    /\ call = "expect_token_value"
    /\ arg = Semicolon
    /\ Len(tokens) > 1
    /\ tokens[1].value = Semicolon
    /\ IsErr(result)

\* C3: expect_end_of_statement(T) succeeds consuming 0 tokens when T is empty
\* and consuming 1 with empty rest when T is one semicolon; it fails with the
\* "Found tokens after a semicolon" error when T starts with a semicolon and
\* has more tokens, and with "Expected no more tokens or a semicolon"
\* whenever the first token is not a semicolon.
C3_EndOfStatementContract ==
    call = "expect_end_of_statement" =>
        IF tokens = <<>>
        THEN result = ExpectOk(<<>>, 0, Unit)
        ELSE IF tokens[1].value = Semicolon
             THEN IF Len(tokens) = 1
                  THEN result = ExpectOk(<<>>, 1, Unit)
                  ELSE result = SyntaxError(Format("Found tokens after a semicolon! Only a single statement at once can be provided.",
                                                   <<>>))
             ELSE result = SyntaxError(Format("Expected no more tokens or a semicolon, instead found {}.",
                                              <<tokens[1]>>))

\* a semicolon followed by another semicolon
C3_Witness ==
    /\ call = "expect_end_of_statement"
    /\ Len(tokens) = 2
    /\ tokens[1].value = Semicolon
    /\ tokens[2].value = Semicolon
    /\ IsErr(result)

\* an element that expect_element accepts lies at positions p .. p + w - 1 of T
\* (1-based): an identifier (w = 1), or a column definition with a bare type
\* (w = 2) or with NULLABLE(type) (w = 5)
IsElementAt(expect_element, T, p, w) ==
    /\ p + w - 1 <= Len(T)
    /\ T[p].value.variant = "Arbitrary"
    /\ IF expect_element = "expect_identifier"
       THEN w = 1
       ELSE \/ w = 2 /\ T[p + 1].value.variant = "Type"
            \/ /\ w = 5
               /\ T[p + 1].value = Const("Nullable")
               /\ T[p + 2].value = ParenthesisOpening
               /\ T[p + 3].value.variant = "Type"
               /\ T[p + 4].value = ParenthesisClosing

\* the column definition written there
ColumnAt(T, p, w) ==
    SyntacticColumnDefinition(
        T[p].value.of,
        IF w = 2 THEN DataTypeWrapped(T[p + 1].value.of, FALSE)
                 ELSE DataTypeWrapped(T[p + 3].value.of, TRUE))

RECURSIVE StartOf(_, _)
\* where element j starts when the elements have widths ws and one token
\* separates two of them; StartOf(ws, Len(ws) + 1) - 1 is where the last one ends
StartOf(ws, j) == IF j = 1 THEN 1 ELSE StartOf(ws, j - 1) + ws[j - 1] + 1

RECURSIVE SumOf(_)
SumOf(ws) == IF ws = <<>> THEN 0 ELSE Head(ws) + SumOf(Tail(ws))

\* T starts with Len(ws) elements of widths ws joined by single commas
StartsWithList(expect_element, T, ws) ==
    \A j \in 1..Len(ws) :
        /\ IsElementAt(expect_element, T, StartOf(ws, j), ws[j])
        /\ j < Len(ws) => /\ StartOf(ws, j) + ws[j] <= Len(T)
                          /\ T[StartOf(ws, j) + ws[j]].value = Comma

ListWidths == SeqsOver({1, 2, 5}, MaxListColumns) \ {<<>>}

\* C4: on k >= 1 valid column definitions joined by single commas, with no
\* trailing comma and at most one more token, which is not a comma,
\* expect_comma_separated with expect_column_definition returns the k columns
\* in their order, a consumed count of the sum of their widths plus k - 1,
\* and as rest the tokens after the last column.
C4_CommaSeparatedColumns ==
    (call = "expect_comma_separated" /\ arg = "expect_column_definition") =>
        \A ws \in ListWidths :
            LET k == Len(ws)
                count == SumOf(ws) + k - 1
            IN  (/\ StartsWithList(arg, tokens, ws)
                 /\ \/ Len(tokens) = count
                    \/ Len(tokens) = count + 1 /\ tokens[count + 1].value # Comma)
                => result = ExpectOk(SubSeq(tokens, count + 1, Len(tokens)), count,
                                     [j \in 1..k |-> ColumnAt(tokens, StartOf(ws, j), ws[j])])

\* three columns, bare and nullable, different from one another, and a token
\* after them that is left in rest
C4_Witness ==
    /\ call = "expect_comma_separated"
    /\ arg = "expect_column_definition"
    /\ IsOk(result)
    /\ Len(result.outcome) = 3
    /\ result.outcome[1] # result.outcome[2]
    /\ result.outcome[1].data_type.is_nullable
    /\ ~result.outcome[3].data_type.is_nullable
    /\ result.tokens_consumed_count = 11
    /\ Len(tokens) = 12
    /\ result.rest = <<tokens[12]>>

\* C5: when expect_comma_separated has consumed a comma and the element
\* function fails on the tokens after it, the call returns that failure: a
\* SyntaxError, expecting an identifier when the comma is followed by the end
\* of the input, a semicolon or a closing parenthesis.  It never returns Ok.
C5_TrailingCommaRejected ==
    call = "expect_comma_separated" =>
        \A ws \in ListWidths :
            LET comma == SumOf(ws) + Len(ws)
                after == SubSeq(tokens, comma + 1, Len(tokens))
            IN  (/\ StartsWithList(arg, tokens, ws)
                 /\ comma <= Len(tokens)
                 /\ tokens[comma].value = Comma
                 /\ ~IsOk(Call(arg, after)))
                => /\ IsErr(result)
                   /\ result = Call(arg, after)
                   /\ (after = <<>> \/ after[1].value = Semicolon)
                        => result = SyntaxError(Format("Expected an identifier, instead found end of statement.",
                                                       <<>>))
                   /\ (after # <<>> /\ after[1].value = ParenthesisClosing)
                        => result = SyntaxError(Format("Expected an identifier, instead found {}.",
                                                       <<after[1]>>))

\* two columns, a comma and a closing parenthesis
C5_Witness ==
    /\ call = "expect_comma_separated"
    /\ arg = "expect_column_definition"
    /\ \E ws \in ListWidths :
          /\ Len(ws) = 2
          /\ StartsWithList(arg, tokens, ws)
          /\ Len(tokens) = SumOf(ws) + 3
          /\ tokens[SumOf(ws) + 2].value = Comma
          /\ tokens[SumOf(ws) + 3].value = ParenthesisClosing
    /\ IsErr(result)

\* C6: expect_data_type_wrapped takes the nullable branch exactly when the
\* first two tokens are NULLABLE and an opening parenthesis.  Then it succeeds
\* iff the third token is a type and the fourth a closing parenthesis,
\* consuming 4 tokens; otherwise it succeeds iff the first token is a type,
\* consuming 1.  A missing type is reported as "a type" expected in the
\* nullable branch and as "a type or 'NULLABLE('" in the other.
C6_DataTypeWrappedContract ==
    call = "expect_data_type_wrapped" =>
        LET T == tokens
            nullable == /\ Len(T) >= 2
                        /\ T[1].value = Const("Nullable")
                        /\ T[2].value = ParenthesisOpening
            at == IF nullable THEN 3 ELSE 1
            has_type == Len(T) >= at /\ T[at].value.variant = "Type"
        IN  /\ IsOk(result) <=>
                 /\ has_type
                 /\ nullable => (Len(T) >= 4 /\ T[4].value = ParenthesisClosing)
            /\ IsOk(result) =>
                 result = ExpectOk(SubSeq(T, (IF nullable THEN 4 ELSE 1) + 1, Len(T)),
                                   IF nullable THEN 4 ELSE 1,
                                   DataTypeWrapped(T[at].value.of, nullable))
            /\ ~has_type =>
                 result = SyntaxError(
                     IF Len(T) < at \/ T[at].value = Semicolon
                     THEN Format(IF nullable
                                 THEN "Expected a type, instead found end of statement."
                                 ELSE "Expected a type or 'NULLABLE(', instead found end of statement.",
                                 <<>>)
                     ELSE Format(IF nullable
                                 THEN "Expected a type, instead found {}."
                                 ELSE "Expected a type or 'NULLABLE(', instead found {}.",
                                 <<T[at]>>))

\* NULLABLE followed by a type instead of the parenthesis: the bare-case message
C6_Witness ==
    /\ call = "expect_data_type_wrapped"
    /\ Len(tokens) >= 2
    /\ tokens[1].value = Const("Nullable")
    /\ tokens[2].value.variant = "Type"
    /\ result = SyntaxError(Format("Expected a type or 'NULLABLE(', instead found {}.",
                                   <<tokens[1]>>))

PrimaryKeyCount(cols) == Cardinality({i \in DOMAIN cols : cols[i].primary_key})

NamesDistinct(cols) ==
    \A i, j \in DOMAIN cols : i # j => cols[i].name # cols[j].name

\* column j (1-based) has the name of an earlier column
Repeats(cols, j) == \E i \in 1..(j - 1) : cols[i].name = cols[j].name

\* the message has `argument` among its format arguments
Cites(message, argument) == \E i \in DOMAIN message.args : message.args[i] = argument

IsValidateErr(r) == "Err" \in DOMAIN r

\* C7: for a table with a non-empty name and at least one column, all column
\* names non-empty and pairwise distinct, validate returns Ok iff exactly one
\* column is a primary key, and otherwise the error stating the actual count.
C7_PrimaryKeyCount ==
    (/\ call = "TableDefinition::validate"
     /\ name # ""
     /\ Len(columns) >= 1
     /\ \A i \in DOMAIN columns : columns[i].name # ""
     /\ NamesDistinct(columns))
    => /\ result = ValidateOk <=> PrimaryKeyCount(columns) = 1
       /\ PrimaryKeyCount(columns) # 1 =>
            result = ValidateErr(Format("A table must have exactly 1 PRIMARY KEY column, not {}",
                                        <<Num(PrimaryKeyCount(columns))>>))

\* three distinct columns, two of them primary keys
C7_Witness ==
    /\ call = "TableDefinition::validate"
    /\ name # ""
    /\ Len(columns) = 3
    /\ \A i \in DOMAIN columns : columns[i].name # ""
    /\ NamesDistinct(columns)
    /\ PrimaryKeyCount(columns) = 2
    /\ result = ValidateErr(Format("A table must have exactly 1 PRIMARY KEY column, not {}",
                                   <<Num(2)>>))

\* C8 as stated: when two columns share a name, validation fails with an error
\* citing the duplicated name and the 1-based index of the later column.
C8_DuplicateCitesNameAndIndex ==
    (/\ call = "TableDefinition::validate"
     /\ \E j \in DOMAIN columns : Repeats(columns, j))
    => /\ IsValidateErr(result)
       /\ \E j \in DOMAIN columns :
             /\ Repeats(columns, j)
             /\ Cites(result.Err, Str(columns[j].name))
             /\ Cites(result.Err, Num(j))

\* C8 as amended: when two columns share a name, validation fails; when the
\* table name and the names of all columns before the first repeating column
\* are non-empty, the error is the duplicate-name error, whose only argument
\* is the repeated name (no column index).
C8_DuplicateCitesName ==
    (/\ call = "TableDefinition::validate"
     /\ \E j \in DOMAIN columns : Repeats(columns, j))
    => /\ IsValidateErr(result)
       /\ LET first == CHOOSE j \in DOMAIN columns :
                           Repeats(columns, j) /\ \A i \in 1..(j - 1) : ~Repeats(columns, i)
          IN  (name # "" /\ \A i \in 1..(first - 1) : columns[i].name # "")
              => result = ValidateErr(Format("There is more than one column with name '{}' in table definition",
                                             <<Str(columns[first].name)>>))

\* the third column repeats the first, and exactly one column is a primary key
C8_Witness ==
    /\ call = "TableDefinition::validate"
    /\ name # ""
    /\ Len(columns) = 3
    /\ columns[1].name # columns[2].name
    /\ columns[3].name = columns[1].name
    /\ PrimaryKeyCount(columns) = 1
    /\ IsValidateErr(result)
    /\ Cites(result.Err, Str(columns[3].name))
    /\ ~Cites(result.Err, Num(3))

\* C9: every TableDefinition that TableDefinition::new returns has a non-empty
\* name, at least one column, pairwise distinct column names, exactly one
\* primary-key column with primary_key_index its position, and passes
\* validation.
C9_NewReturnsValidTable ==
    (call = "TableDefinition::new" /\ ~IsPanic(result))
    => /\ result.name # ""
       /\ Len(result.columns) >= 1
       /\ NamesDistinct(result.columns)
       /\ PrimaryKeyCount(result.columns) = 1
       /\ result.columns[result.primary_key_index + 1].primary_key
       /\ TableDefinition_validate(result) = ValidateOk

\* C10: the tokens of "users (id UInt64 PRIMARY KEY, name String, age
\* NULLABLE(UInt8))" are accepted by expect_table_definition, which consumes
\* them all and yields the table users with the columns id, name, age in
\* that order, age nullable.
C10_UsersStatementAccepted ==
    (call = "expect_table_definition" /\ Values(tokens) = UsersTableSource)
    => /\ IsOk(result)
       /\ result.rest = <<>>
       /\ result.tokens_consumed_count = Len(UsersTableSource)
       /\ result.outcome.name = "users"
       /\ [i \in DOMAIN result.outcome.columns |-> result.outcome.columns[i].name]
              = <<"id", "name", "age">>
       /\ result.outcome.columns[3].data_type.is_nullable

\* column j (1-based) is rejected when the loop of validate visits it
ColumnViolates(cols, j) == Repeats(cols, j) \/ cols[j].name = ""

\* the one result the fixed order of checks allows for a table
FirstProblem(table_name, cols) ==
    IF table_name = ""
    THEN ValidateErr(Format("A table must have a name", <<>>))
    ELSE IF cols = <<>>
    THEN ValidateErr(Format("A table must have at least one column", <<>>))
    ELSE IF \E j \in DOMAIN cols : ColumnViolates(cols, j)
    THEN LET j == CHOOSE k \in DOMAIN cols :
                      ColumnViolates(cols, k) /\ \A i \in 1..(k - 1) : ~ColumnViolates(cols, i)
         IN  IF Repeats(cols, j)
             THEN ValidateErr(Format("There is more than one column with name '{}' in table definition",
                                     <<Str(cols[j].name)>>))
             ELSE ValidateErr(Format("Problem at column {}: {}",
                                     <<Num(j), Format("A column must have a name", <<>>)>>))
    ELSE IF PrimaryKeyCount(cols) # 1
    THEN ValidateErr(Format("A table must have exactly 1 PRIMARY KEY column, not {}",
                            <<Num(PrimaryKeyCount(cols))>>))
    ELSE ValidateOk

\* C11: validate reports one error, the first in this order: empty table
\* name; empty column list; then, column by column, a name repeating an
\* earlier column's or an empty name ("Problem at column N", N 1-based); and
\* only when every column passed, a primary-key count other than 1.
C11_FirstErrorInFixedOrder ==
    call = "TableDefinition::validate" => result = FirstProblem(name, columns)

\* two primary keys followed by a column repeating the first name: the
\* duplicate is reported, not the count
C11_Witness ==
    /\ call = "TableDefinition::validate"
    /\ name # ""
    /\ Len(columns) = 3
    /\ columns[1].primary_key
    /\ columns[2].primary_key
    /\ columns[1].name # ""
    /\ columns[2].name # ""
    /\ columns[1].name # columns[2].name
    /\ columns[3].name = columns[1].name
    /\ result = ValidateErr(Format("There is more than one column with name '{}' in table definition",
                                   <<Str(columns[3].name)>>))

\* C12: TableDefinition::new never aborts, whatever the name and the column
\* list: it always returns a value.
C12_NewNeverPanics ==
    call = "TableDefinition::new" => ~IsPanic(result)

\* C13: expect_table_definition never succeeds with an empty column list; an
\* identifier followed by ( and ) fails with a SyntaxError.
C13_NoEmptyColumnList ==
    call = "expect_table_definition" =>
        /\ IsOk(result) => Len(result.outcome.columns) >= 1
        /\ (/\ Len(tokens) >= 3
            /\ tokens[1].value.variant = "Arbitrary"
            /\ tokens[2].value = ParenthesisOpening
            /\ tokens[3].value = ParenthesisClosing)
           => result = SyntaxError(Format("Expected an identifier, instead found {}.",
                                          <<tokens[3]>>))

\* a table definition accepted with a single column
C13_Witness ==
    /\ call = "expect_table_definition"
    /\ IsOk(result)
    /\ Len(result.outcome.columns) = 1
    /\ result.tokens_consumed_count = Len(tokens)

\* the calls that parse tokens
ParsingCalls ==
    {"expect_token_value", "expect_token_values_sequence", "expect_identifier",
     "expect_end_of_statement", "expect_enclosed", "expect_comma_separated",
     "expect_data_type_wrapped", "expect_column_definition", "expect_table_definition",
     "expect_comma_separated: returned"}

InLoop == call = "expect_comma_separated: in loop"

\* the loop-by-loop run returns what expect_comma_separated returns
IterationsAgreeWithLoop ==
    call = "expect_comma_separated: returned" => result = expect_comma_separated(tokens, arg)

\* no parsing call made on the slice at hand takes a slice at a start index
\* beyond the length of its slice: whichever combinator is called, with
\* whichever argument, it returns a result
EveryCallInBounds ==
    /\ \A expected_token_value \in ExpectedValues :
          ~IsPanic(expect_token_value(tokens, expected_token_value))
    /\ ~IsPanic(expect_token_values_sequence(tokens, expected))
    /\ ~IsPanic(expect_identifier(tokens))
    /\ ~IsPanic(expect_end_of_statement(tokens))
    /\ \A expect_inside \in InsideFunctions : ~IsPanic(expect_enclosed(tokens, expect_inside))
    /\ \A expect_element \in ElementFunctions :
          ~IsPanic(expect_comma_separated(tokens, expect_element))
    /\ ~IsPanic(expect_data_type_wrapped(tokens))
    /\ ~IsPanic(expect_column_definition(tokens))
    /\ ~IsPanic(expect_table_definition(tokens))

\* the same, of the calls as the program makes them
NoParsingCallPanics == call \in ParsingCalls => ~IsPanic(result)

\* C14: every parsing call terminates.  No call takes a slice at a start
\* index beyond the length of its slice; the loop of expect_comma_separated
\* never holds a position beyond the end of the tokens, every iteration that
\* goes round again has moved the position forward by at least one, and a
\* call in the loop eventually returns, with a result.
C14_TerminatesInBounds ==
    /\ []EveryCallInBounds
    /\ []NoParsingCallPanics
    /\ [](InLoop => result.tokens_consumed_total_count <= Len(tokens))
    /\ [][(InLoop /\ InLoop') => LoopLocals'[1] >= LoopLocals[1] + 1]_LoopLocals
    /\ [](InLoop => <>(call = "expect_comma_separated: returned"))

\* the loop entering its third iteration
C14_Witness ==
    /\ InLoop
    /\ arg = "expect_column_definition"
    /\ Len(result.outcomes) = 2
    /\ result.tokens_consumed_total_count < Len(tokens)

\* C15: a successful result of any combinator on tokens T has rest equal to
\* the suffix of T that starts at index tokens_consumed_count, so that
\* tokens_consumed_count + len(rest) = len(T) and tokens_consumed_count <=
\* len(T).  The count of expect_enclosed is the count of the inner combinator
\* on the tokens after the opening parenthesis plus 2, and the count of
\* expect_table_definition is 1 plus the count of the enclosed list.
C15_RestIsSuffixAtCount ==
    (call \in ParsingCalls /\ IsOk(result)) =>
        /\ result.tokens_consumed_count <= Len(tokens)
        /\ result.rest = SliceFrom(tokens, result.tokens_consumed_count)
        /\ result.tokens_consumed_count + Len(result.rest) = Len(tokens)
        /\ call = "expect_enclosed" =>
              LET inside == Call(arg, SliceFrom(tokens, 1))
              IN  IsOk(inside) /\ result.tokens_consumed_count = inside.tokens_consumed_count + 2
        /\ call = "expect_table_definition" =>
              LET enclosed == expect_enclosed(SliceFrom(tokens, 1), "columns_closure")
              IN  IsOk(enclosed) /\ result.tokens_consumed_count = 1 + enclosed.tokens_consumed_count

\* expect_table_definition succeeds on a name and a parenthesised list of two
\* columns and leaves the tokens after the closing parenthesis
C15_Witness ==
    /\ call = "expect_table_definition"
    /\ IsOk(result)
    /\ Len(result.outcome.columns) = 2
    /\ result.rest # <<>>
    /\ result.tokens_consumed_count < Len(tokens)

=============================================================================
